---- MODULE Spec2Model ----
(***************************************************************************)
(* A model of the IBM App Configuration Python client SDK facade           *)
(* (ibm_appconfiguration/appconfiguration.py), of the Feature model        *)
(* (configurations/models/feature.py) and of the API manager               *)
(* (configurations/internal/utils/api_manager.py).                         *)
(*                                                                         *)
(* The ConfigurationHandler and the Validators helper are collaborators    *)
(* whose code is not part of the sources at hand; they are modelled from   *)
(* the written specification (sections 4.2 to 4.5 and 6) and the           *)
(* definitions that do so say it in their comment.                         *)
(*                                                                         *)
(* Callers are threads.  A listener that re-enters the facade from inside  *)
(* load_data is the special case of a second caller that runs to           *)
(* completion while the first one is still inside load_data.               *)
(*                                                                         *)
(* Specifications:                                                         *)
(*   Spec          one caller, every operation of the facade               *)
(*   SpecThreads   two callers interleaving init, set_context and          *)
(*                 fetch_configurations                                    *)
(*   SpecInstance  callers interleaving get_instance() and the constructor *)
(*   SpecFeature   Feature.get_current_value on drawn inputs, with a       *)
(*                 refresh between get_feature and the evaluation          *)
(*   SpecConstruct Feature(feature_list) on drawn payload entries          *)
(*   SpecAPI       APIManager.get_instance() and prepare_api_request on    *)
(*                 drawn requests                                          *)
(***************************************************************************)
EXTENDS Integers, Sequences, FiniteSets, TLC

\* ------------------------------------------------------------------ bounds

\* Number of listener registrations one behaviour may make.
MaxListeners == 2

\* Number of requests one behaviour sends through the API manager.
MaxRequests == 2

\* Number of APIManager.get_instance() calls one behaviour makes.
MaxGetInstance == 3

\* ------------------------------------------------------------- value sets

\* Python's None where a str is expected.
PyNone == "<None>"

\* Caller threads of the facade.
Threads == {1, 2}

\* The caller of the one-caller specification.
MainThread == 1

\* Arguments (region, guid, apikey) of init: two valid triples, and triples
\* with None or the empty string in each position.
InitArgs ==
    {<<"r1", "g1", "k1">>, <<"r2", "g2", "k2">>,
     <<PyNone, "g2", "k2">>, <<"", "g2", "k2">>,
     <<"r2", PyNone, "k2">>, <<"r2", "", "k2">>,
     <<"r2", "g2", PyNone>>, <<"r2", "g2", "">>,
     <<PyNone, PyNone, PyNone>>}

\* Arguments of set_context.
CollectionArgs == {PyNone, "", "c1"}
EnvironmentArgs == {PyNone, "", "e1"}
FileArgs == {PyNone, "user.json"}

\* Listener callbacks an application registers.
Callbacks == {"l1", "l2"}

\* Payloads the service (or the local file) can hold.
Payloads == {"p1", "p2"}

\* Ids asked of get_feature / get_property.
FeatureIds == {"f1", "f2"}
PropertyIds == {"q1"}

\* The values returned by the facade's read calls.
RetNone == [kind |-> "None"]
RetValue(v) == [kind |-> "value", val |-> v]
RetDict(items) == [kind |-> "dict", items |-> items]

\* The empty snapshot a handler holds before any load.
EmptySnapshot == [features |-> {}, properties |-> {}, segments |-> {}]

\* ------------------------------------------------------- Feature objects

\* Python's `object`, the default of enabled_value and disabled_value.
PyObject == "<class 'object'>"

\* The members of ConfigurationType (spec.md section 3: "one of {BOOLEAN,
\* NUMERIC, STRING}").
ConfigurationTypes == {"BOOLEAN", "NUMERIC", "STRING"}

\* The argument of Feature(...): a dict, or a value of another shape.
Dict(d) == [shape |-> "dict", d |-> d]
NotADict(shape) == [shape |-> shape]

\* dict.get(key, default).
Get(d, key, default) == IF key \in DOMAIN d THEN d[key] ELSE default

\* What a constructor call yields: the exception that leaves it, or the object.
Raises(exception) == [kind |-> "raised", exception |-> exception]

\* The type of a Feature that falls back to STRING.
feature_type_defaults_to_string(d) ==
    IF Get(d, "type", PyNone) # PyNone THEN d["type"] ELSE "STRING"

\* The type of a Feature: line 36 with a 'type' that is absent or null.
feature_type(d) == IF Get(d, "type", PyNone) # PyNone THEN d["type"] ELSE "NUMERIC"

\* Feature.__init__, lines 31-38: every field read with dict.get and a
\* default; ConfigurationType(...) raises ValueError for a value that is not a
\* member, and .get raises AttributeError on an argument that is not a dict.
Feature(feature_list) ==
    IF feature_list.shape # "dict" THEN Raises("AttributeError")
    ELSE LET d == feature_list.d
         IN IF feature_type(d) \notin ConfigurationTypes THEN Raises("ValueError")
            ELSE [kind           |-> "Feature",
                  enabled        |-> Get(d, "enabled", FALSE),
                  name           |-> Get(d, "name", ""),
                  feature_id     |-> Get(d, "feature_id", ""),
                  segment_rules  |-> Get(d, "segment_rules", <<>>),
                  type           |-> feature_type(d),
                  disabled_value |-> Get(d, "disabled_value", PyObject),
                  enabled_value  |-> Get(d, "enabled_value", PyObject)]

\* The list of a sequence's elements in reverse order.
Reverse(seq) == [i \in 1..Len(seq) |-> seq[Len(seq) + 1 - i]]

\* get_segment_rules handing out the rules last to first.
get_segment_rules_reversed(f) == Reverse(f.segment_rules)

\* is_enabled answering yes for every feature.
is_enabled_always(f) == TRUE

\* The accessors of Feature, lines 40-66.
get_feature_name(f) == f.name
get_disabled_value(f) == f.disabled_value
get_enabled_value(f) == f.enabled_value
get_feature_id(f) == f.feature_id
get_feature_data_type(f) == f.type
is_enabled(f) == f.enabled
get_segment_rules(f) == f.segment_rules

\* Entries of a payload's feature_flags array (spec.md section 8, scenarios):
\* a flag without targeting rules, a flag with one rule on segment s1, a flag
\* without the 'enabled' key, and a flag with two rules of which the first is
\* rolled out to half the entities; and a flag with three rules of which the
\* first names a segment no snapshot defines.
f1_dict ==
    [feature_id |-> "f1", name |-> "F1", type |-> "BOOLEAN", enabled |-> TRUE,
     enabled_value |-> "true", disabled_value |-> "false"]
f2_dict ==
    [feature_id |-> "f2", name |-> "F2", type |-> "STRING", enabled |-> TRUE,
     enabled_value |-> "blue", disabled_value |-> "grey",
     segment_rules |-> <<[segments |-> {"s1"}, value |-> "red", rollout |-> 100]>>]
f3_dict ==
    [feature_id |-> "f3", name |-> "F3", type |-> "STRING",
     enabled_value |-> "blue", disabled_value |-> "grey",
     segment_rules |-> <<[segments |-> {"s1"}, value |-> "red", rollout |-> 100]>>]
f4_dict ==
    [feature_id |-> "f4", name |-> "F4", type |-> "STRING", enabled |-> TRUE,
     enabled_value |-> "blue", disabled_value |-> "grey",
     segment_rules |-> <<[segments |-> {"s1"}, value |-> "red", rollout |-> 50],
                         [segments |-> {"s1"}, value |-> "green", rollout |-> 100]>>]

f5_dict ==
    [feature_id |-> "f5", name |-> "F5", type |-> "STRING", enabled |-> TRUE,
     enabled_value |-> "blue", disabled_value |-> "grey",
     segment_rules |-> <<[segments |-> {"s2"}, value |-> "black", rollout |-> 100],
                         [segments |-> {"s1"}, value |-> "red", rollout |-> 100],
                         [segments |-> {"s1"}, value |-> "green", rollout |-> 100]>>]

\* The feature_flags array of each payload.
feature_flags(p) ==
    IF p = "p1" THEN {f1_dict, f2_dict} ELSE {f1_dict, f3_dict, f4_dict, f5_dict}

\* The Feature objects the handler builds from a payload.
PayloadFeatures(p) == {Feature(Dict(d)) : d \in feature_flags(p)}

\* spec.md section 6, "Persisted/local file format": the payload's three arrays
\* parsed into the three sub-maps of one snapshot.
Parse(p) ==
    [features   |-> {<<get_feature_id(f), f>> : f \in PayloadFeatures(p)},
     properties |-> {<<"q1", IF p = "p1" THEN "1" ELSE "2">>},
     segments   |-> {<<"s1", <<"city", IF p = "p1" THEN "NY" ELSE "LA">>>>}]

VARIABLES
    \* AppConfiguration object fields (appconfiguration.py:64-70)
    apikey, region, guid,
    configuration_handler_instance,
    is_initialized, is_initialized_configuration, is_loading,
    \* ConfigurationHandler singleton
    h_initialized, h_context, cache, listeners,
    \* callers of the facade: position and public operation in progress
    pc, op,
    \* the configuration service
    remote,
    \* the most recent completed call or load_data cycle, whether an
    \* exception left a call of the facade, and the arguments of the most
    \* recent init call that were all non-empty strings
    last, raised, valid_init,
    \* AppConfiguration.__instance, the objects constructed, and the callers
    \* of get_instance() / AppConfiguration()
    instance, objects, ipc, via, iret,
    \* Feature.get_current_value: the feature, its arguments, its result and
    \* the calls the evaluator received
    feature, entity_id, entity_attributes, current_value, evaluations,
    \* Feature(...): the argument of a constructor call and what it yielded
    feature_list, built,
    \* APIManager: the requests made through prepare_api_request, each with
    \* what the call yielded
    requests,
    \* APIManager.__instance, the APIManager objects constructed so far and
    \* the object each get_instance() call returned, in call order
    api_instance, api_objects, api_returned

facadeVars == <<apikey, region, guid, configuration_handler_instance,
                is_initialized, is_initialized_configuration, is_loading>>
handlerVars == <<h_initialized, h_context, cache, listeners>>
callerVars == <<pc, op>>
singletonVars == <<instance, objects, ipc, via, iret>>
featureVars == <<feature, entity_id, entity_attributes, current_value, evaluations,
                 feature_list, built>>

apiVars == <<requests, api_instance, api_objects, api_returned>>

vars == <<facadeVars, handlerVars, callerVars, remote, last, raised, valid_init,
          singletonVars, featureVars, apiVars>>

\* ------------------------------------------------------------ collaborators

\* Validators.validate_string: a non-empty string (spec.md section 6,
\* "non-empty strings required").
validate_string(v) == v # PyNone /\ v # ""

NoContext == [bound |-> FALSE]

\* ConfigurationHandler.set_context: binds collection, environment and the
\* update source (spec.md section 4.5).
handler_set_context(collection_id, environment_id, configuration_file, live) ==
    [bound |-> TRUE,
     collection_id |-> collection_id,
     environment_id |-> environment_id,
     configuration_file |-> configuration_file,
     live_config_update_enabled |-> live]

\* Cache lookups (spec.md section 4.3): "not found" for an unknown id.
Lookup(map, id) ==
    IF \E e \in map : e[1] = id
    THEN RetValue((CHOOSE e \in map : e[1] = id)[2])
    ELSE RetNone

handler_get_feature(id) == Lookup(cache.features, id)
handler_get_features == RetDict(cache.features)
handler_get_property(id) == Lookup(cache.properties, id)
handler_get_properties == RetDict(cache.properties)

\* The handler's lifecycle state (spec.md section 4.5).  Every payload of the
\* model parses to a non-empty snapshot, so a cache that is still empty has
\* never been replaced.
HandlerState ==
    IF cache # EmptySnapshot THEN "LOADED"
    ELSE IF h_context.bound THEN "CONTEXT_SET"
    ELSE "UNINITIALIZED"

\* ----------------------------------------------------------- observations

NoCall == [kind |-> "none"]

\* A completed call of the facade: the error it logged, whether it delegated
\* to the handler, and what it returned.
Call(o, err, del, ret) ==
    [kind |-> "call", op |-> o, error |-> err, delegated |-> del, ret |-> ret]

\* ------------------------------------------------------------------- Init

\* AppConfiguration.__init__, lines 64-70.
InitFacade ==
    /\ apikey = ""
    /\ region = ""
    /\ guid = ""
    /\ configuration_handler_instance = "None"
    /\ is_initialized = FALSE
    /\ is_initialized_configuration = FALSE
    /\ is_loading = FALSE

\* A ConfigurationHandler that has not been initialised.
InitHandler ==
    /\ h_initialized = FALSE
    /\ h_context = NoContext
    /\ cache = EmptySnapshot
    /\ listeners = <<>>

InitCallers ==
    /\ pc = [t \in Threads |-> "idle"]
    /\ op = [t \in Threads |-> "none"]
    /\ last = NoCall
    /\ raised = FALSE

\* The process after one get_instance(): one object, held by __instance.
InitSingletonBuilt ==
    /\ instance = 1
    /\ objects = 1
    /\ ipc = [t \in Threads |-> "idle"]
    /\ via = [t \in Threads |-> "none"]
    /\ iret = [t \in Threads |-> [kind |-> "none"]]

\* No constructor call made.
NotBuilt == [kind |-> "none"]

InitNotBuilt ==
    /\ feature_list = NotADict("None")
    /\ built = NotBuilt

\* The class attribute APIManager.__instance of line 30, before any call.
InitAPIManager ==
    /\ requests = <<>>
    /\ api_instance = "None"
    /\ api_objects = {}
    /\ api_returned = <<>>

\* No Feature under evaluation.
InitNoFeature ==
    /\ feature = [feature_id |-> "none"]
    /\ entity_id = PyNone
    /\ entity_attributes = {}
    /\ current_value = RetNone
    /\ evaluations = <<>>
    /\ InitNotBuilt
    /\ InitAPIManager

Init ==
    /\ InitFacade
    /\ InitHandler
    /\ InitCallers
    /\ valid_init = <<"", "", "">>
    /\ remote \in Payloads
    /\ InitSingletonBuilt
    /\ InitNoFeature

\* ------------------------------------------------------- AppConfiguration

\* init without the test of guid (lines 90-92 left out).
init_error_skips_guid(r, g, k) ==
    IF ~validate_string(r) THEN "REGION_ERROR"
    ELSE IF ~validate_string(k) THEN "APIKEY_ERROR"
    ELSE "none"

\* init, lines 84-92: the first argument that fails validation, in the order
\* the code tests them.
init_error(r, g, k) ==
    IF ~validate_string(r) THEN "REGION_ERROR"
    ELSE IF ~validate_string(k) THEN "APIKEY_ERROR"
    ELSE IF ~validate_string(g) THEN "GUID_ERROR"
    ELSE "none"

\* Arguments that are all non-empty strings.
AllValid(r, g, k) == \A v \in {r, g, k} : v \notin {PyNone, ""}

\* AppConfiguration.init(region, guid, apikey), lines 84-97; the call of
\* __setup_configuration_handler at line 98 is the caller's next step.
init(t, r, g, k) ==
    /\ pc[t] = "idle"
    /\ IF init_error(r, g, k) # "none"
       THEN /\ last' = Call("init", init_error(r, g, k), FALSE, RetNone)
            /\ UNCHANGED <<facadeVars, callerVars>>
       ELSE /\ apikey' = k
            /\ region' = r
            /\ guid' = g
            /\ is_initialized' = TRUE
            /\ is_loading' = FALSE
            /\ pc' = [pc EXCEPT ![t] = "init_setup"]
            /\ op' = [op EXCEPT ![t] = "init"]
            /\ last' = Call("init", "none", TRUE, RetNone)
            /\ UNCHANGED <<configuration_handler_instance, is_initialized_configuration>>
    /\ valid_init' = IF AllValid(r, g, k) THEN <<r, g, k>> ELSE valid_init
    /\ UNCHANGED <<handlerVars, remote, raised>>
    /\ UNCHANGED <<singletonVars, featureVars, apiVars>>

\* __setup_configuration_handler, lines 171-175, called at line 98: the
\* handler singleton is obtained and init-ed.
setup_configuration_handler(t) ==
    /\ pc[t] = "init_setup"
    /\ configuration_handler_instance' = "handler"
    /\ h_initialized' = TRUE
    /\ pc' = [pc EXCEPT ![t] = "idle"]
    /\ op' = [op EXCEPT ![t] = "none"]
    /\ UNCHANGED <<apikey, region, guid, is_initialized, is_initialized_configuration,
                   is_loading>>
    /\ UNCHANGED <<h_context, cache, listeners, remote, last, raised>>
    /\ UNCHANGED <<valid_init, singletonVars, featureVars, apiVars>>

\* get_guid returning the field next to it.
get_guid_returns_apikey == apikey

\* get_region, get_guid and get_apikey, lines 100-122.
get_region == region
get_guid == guid
get_apikey == apikey

\* The three getters called one after the other.
get_credentials(t) ==
    /\ pc[t] = "idle"
    /\ last' = Call("get_credentials", "none", FALSE,
                    [kind |-> "credentials", region |-> get_region,
                     guid |-> get_guid, apikey |-> get_apikey])
    /\ UNCHANGED <<facadeVars, handlerVars, callerVars, remote, raised>>
    /\ UNCHANGED <<valid_init, singletonVars, featureVars, apiVars>>

\* set_context without the test of environment_id (lines 149-151 left out).
set_context_error_skips_environment(c, e) ==
    IF ~is_initialized THEN "COLLECTION_INIT_ERROR"
    ELSE IF ~validate_string(c) THEN "COLLECTION_ID_VALUE_ERROR"
    ELSE "none"

\* set_context, lines 141-151: the validation that makes the call return early.
set_context_error(c, e) ==
    IF ~is_initialized THEN "COLLECTION_INIT_ERROR"
    ELSE IF ~validate_string(c) THEN "COLLECTION_ID_VALUE_ERROR"
    ELSE IF ~validate_string(e) THEN "ENVIRONMENT_ID_VALUE_ERROR"
    ELSE "none"

\* set_context, line 154: offline use without a configuration file.
configuration_file_missing(f, live) == ~live /\ f = PyNone

\* AppConfiguration.set_context, lines 141-160; the call of __load_data_now at
\* line 161 is the caller's next steps.
set_context(t, c, e, f, live) ==
    /\ pc[t] = "idle"
    /\ IF set_context_error(c, e) # "none"
       THEN /\ last' = Call("set_context", set_context_error(c, e), FALSE, RetNone)
            /\ UNCHANGED <<facadeVars, handlerVars, callerVars, raised>>
       ELSE /\ is_initialized_configuration' = TRUE
            /\ UNCHANGED <<apikey, region, guid, configuration_handler_instance,
                           is_initialized, is_loading>>
            /\ IF configuration_file_missing(f, live)
               THEN /\ last' = Call("set_context", "CONFIGURATION_FILE_NOT_FOUND_ERROR",
                                    FALSE, RetNone)
                    /\ UNCHANGED <<handlerVars, callerVars, raised>>
               ELSE /\ last' = Call("set_context", "none", TRUE, RetNone)
                    /\ IF configuration_handler_instance = "None"
                       THEN /\ raised' = TRUE
                            /\ UNCHANGED <<handlerVars, callerVars>>
                       ELSE /\ h_context' = handler_set_context(c, e, f, live)
                            /\ pc' = [pc EXCEPT ![t] = "ldn_check"]
                            /\ op' = [op EXCEPT ![t] = "set_context"]
                            /\ UNCHANGED <<h_initialized, cache, listeners, raised>>
    /\ UNCHANGED remote
    /\ UNCHANGED <<valid_init, singletonVars, featureVars, apiVars>>

\* The guard of fetch_configurations, line 165.
fetch_guard == is_initialized /\ is_initialized_configuration

\* AppConfiguration.fetch_configurations, lines 163-168.
fetch_configurations(t) ==
    /\ pc[t] = "idle"
    /\ IF fetch_guard
       THEN /\ pc' = [pc EXCEPT ![t] = "ldn_check"]
            /\ op' = [op EXCEPT ![t] = "fetch_configurations"]
            /\ last' = Call("fetch_configurations", "none", TRUE, RetNone)
       ELSE /\ last' = Call("fetch_configurations", "COLLECTION_INIT_ERROR", FALSE, RetNone)
            /\ UNCHANGED callerVars
    /\ UNCHANGED <<facadeVars, handlerVars, remote, raised>>
    /\ UNCHANGED <<valid_init, singletonVars, featureVars, apiVars>>


\* ------------------------------------------------------------- APIManager

\* What BaseService.prepare_request / send do with one request: a response
\* with a 2xx status, an ApiException carrying the status of the failed
\* request, or another exception (no connection, a bad url).
SendOutcomes ==
    {[kind |-> "ok", status |-> 200],
     [kind |-> "api_exception", status |-> 404],
     [kind |-> "api_exception", status |-> 500],
     [kind |-> "exception", status |-> 0]}

\* The data argument of prepare_api_request: None, a str, a dict that
\* json.dumps serialises and a dict that it does not.
DataArgs == {"none", "str", "dict", "dict_unserializable"}

\* DetailedResponse(status_code=...), or the exception that left the call.
Response(status) == [raised |-> FALSE, status_code |-> status]
Propagated == [raised |-> TRUE, status_code |-> 0]

\* prepare_api_request answering 200 from its last except block.
prepare_api_request_swallows_errors(data, so) ==
    IF data = "dict_unserializable" THEN Propagated
    ELSE IF so.kind = "ok" THEN Response(so.status)
    ELSE IF so.kind = "api_exception" THEN Response(so.status)
    ELSE Response(200)

\* prepare_api_request losing the response of a request that was answered.
prepare_api_request_drops_response(data, so) ==
    IF data = "dict_unserializable" THEN Propagated
    ELSE IF so.kind = "ok" THEN Response(400)
    ELSE IF so.kind = "api_exception" THEN Response(so.status)
    ELSE Response(400)

\* APIManager.prepare_api_request, lines 62-82.  json_import.dumps (line 67)
\* runs before the try block.
prepare_api_request(data, so) ==
    IF data = "dict_unserializable" THEN Propagated
    ELSE IF so.kind = "ok" THEN Response(so.status)
    ELSE IF so.kind = "api_exception" THEN Response(so.status)
    ELSE Response(400)

\* One call of prepare_api_request(method, url, data).  The method and the url
\* only reach prepare_request and send, whose outcomes are SendOutcomes.
api_request(data, so) ==
    /\ Len(requests) < MaxRequests
    /\ requests' = Append(requests, [data |-> data, send |-> so,
                                     response |-> prepare_api_request(data, so)])
    /\ UNCHANGED <<api_instance, api_objects, api_returned>>
    /\ UNCHANGED <<facadeVars, handlerVars, callerVars, remote, last, raised, valid_init,
                   singletonVars, featureVars>>

\* APIManager.__init__, lines 39-40, as what it leaves in the class attribute
\* __instance: the body logs and assigns nothing.
APIManager_init(self, inst) == inst

\* APIManager.get_instance(), lines 32-37: a new APIManager() while __instance
\* is None, else the stored one.  Objects are numbered in construction order.
APIManager_get_instance ==
    /\ Len(api_returned) < MaxGetInstance
    /\ IF api_instance = "None"
       THEN LET self == Cardinality(api_objects) + 1
            IN /\ api_objects' = api_objects \cup {self}
               /\ api_instance' = APIManager_init(self, api_instance)
               /\ api_returned' = Append(api_returned, self)
       ELSE /\ api_returned' = Append(api_returned, api_instance)
            /\ UNCHANGED <<api_instance, api_objects>>
    /\ UNCHANGED requests
    /\ UNCHANGED <<facadeVars, handlerVars, callerVars, remote, last, raised, valid_init,
                   singletonVars, featureVars>>

\* An API manager that has sent nothing, in a process of which nothing else
\* is running.
InitAPI ==
    /\ InitFacade
    /\ InitHandler
    /\ InitCallers
    /\ valid_init = <<"", "", "">>
    /\ remote = "p1"
    /\ InitSingletonBuilt
    /\ InitNoFeature

APINext ==
    \/ \E data \in DataArgs, so \in SendOutcomes : api_request(data, so)
    \/ APIManager_get_instance

SpecAPI == InitAPI /\ [][APINext]_vars

\* ---------------------------------------------------- ConfigurationHandler

\* The content of the local configuration file.
FilePayload == "p1"

\* The update source bound by set_context (spec.md section 4.4).
UsesFile == h_context.bound /\ h_context.configuration_file # PyNone

\* The response of the fetch of one load_data cycle: a read of the local file,
\* or a GET sent through the API manager.
FetchResponse(so) ==
    IF UsesFile THEN Response(200) ELSE prepare_api_request("none", so)

FetchedPayload == IF UsesFile THEN FilePayload ELSE remote

\* Whether one fetch-parse cycle yields a snapshot to commit (spec.md section
\* 4.5): a bound context, a 2xx response and a payload that parses.
CycleSucceeds(so, payload_ok) ==
    /\ h_context.bound
    /\ ~FetchResponse(so).raised
    /\ FetchResponse(so).status_code \in 200..299
    /\ payload_ok

\* What went into one cycle: a transport error, a non-2xx answer, a payload
\* that does not parse, or a well-formed answer.
CycleInput(so, payload_ok) ==
    IF so.kind = "exception" THEN "transport_error"
    ELSE IF so.kind = "api_exception" THEN "non_2xx"
    ELSE IF ~payload_ok THEN "malformed"
    ELSE "ok"

\* One load_data cycle as observed: its input, the handler's state and cache
\* before it, the listeners registered and the listeners it called, in order.
Cycle(so, payload_ok, fired) ==
    [kind |-> "cycle", input |-> CycleInput(so, payload_ok),
     bound |-> h_context.bound, before |-> cache,
     payload |-> FetchedPayload,
     registered |-> listeners, fired |-> fired]

\* ConfigurationHandler.load_data (spec.md section 4.5): one
\* fetch-parse-replace cycle, then the listeners in registration order.
handler_load_data(so, payload_ok) ==
    IF CycleSucceeds(so, payload_ok)
    THEN /\ cache' = Parse(FetchedPayload)
         /\ last' = Cycle(so, payload_ok, listeners)
    ELSE /\ UNCHANGED cache
         /\ last' = Cycle(so, payload_ok, <<>>)

\* ------------------------------------------------------- __load_data_now

\* Threads inside ConfigurationHandler.load_data.
InFlight == {t \in Threads : pc[t] = "load_data"}

\* __load_data_now, lines 178-179.
LdnCheck(t) ==
    /\ pc[t] = "ldn_check"
    /\ IF is_loading
       THEN /\ pc' = [pc EXCEPT ![t] = "idle"]
            /\ op' = [op EXCEPT ![t] = "none"]
       ELSE /\ pc' = [pc EXCEPT ![t] = "ldn_set"]
            /\ UNCHANGED op
    /\ UNCHANGED <<facadeVars, handlerVars, remote, last, raised>>
    /\ UNCHANGED <<valid_init, singletonVars, featureVars, apiVars>>

\* __load_data_now, line 180, and the entry into load_data of line 181.
LdnSet(t) ==
    /\ pc[t] = "ldn_set"
    /\ is_loading' = TRUE
    /\ pc' = [pc EXCEPT ![t] = "load_data"]
    /\ UNCHANGED <<apikey, region, guid, configuration_handler_instance,
                   is_initialized, is_initialized_configuration>>
    /\ UNCHANGED <<handlerVars, op, remote, last, raised>>
    /\ UNCHANGED <<valid_init, singletonVars, featureVars, apiVars>>

\* __load_data_now, line 181: the load_data cycle runs and returns; on a
\* handler that is still None the call raises AttributeError, which leaves
\* __load_data_now and the public operation before line 182.
LoadData(t, so, payload_ok) ==
    /\ pc[t] = "load_data"
    /\ IF configuration_handler_instance = "None"
       THEN /\ raised' = TRUE
            /\ pc' = [pc EXCEPT ![t] = "idle"]
            /\ op' = [op EXCEPT ![t] = "none"]
            /\ UNCHANGED <<cache, last>>
       ELSE /\ UsesFile => so.kind = "ok"
            /\ handler_load_data(so, payload_ok)
            /\ pc' = [pc EXCEPT ![t] = "ldn_reset"]
            /\ UNCHANGED <<op, raised>>
    /\ UNCHANGED <<facadeVars, h_initialized, h_context, listeners, remote>>
    /\ UNCHANGED <<valid_init, singletonVars, featureVars, apiVars>>

\* __load_data_now, line 182.
LdnReset(t) ==
    /\ pc[t] = "ldn_reset"
    /\ is_loading' = FALSE
    /\ pc' = [pc EXCEPT ![t] = "idle"]
    /\ op' = [op EXCEPT ![t] = "none"]
    /\ UNCHANGED <<apikey, region, guid, configuration_handler_instance,
                   is_initialized, is_initialized_configuration>>
    /\ UNCHANGED <<handlerVars, remote, last, raised>>
    /\ UNCHANGED <<valid_init, singletonVars, featureVars, apiVars>>

\* ------------------------------------------------- listeners and reads

\* The guard of register_configuration_update_listener, line 190.
register_guard == is_initialized /\ is_initialized_configuration

\* AppConfiguration.register_configuration_update_listener, lines 184-193, and
\* the handler's append to its listener registry (spec.md section 4.5).
register_configuration_update_listener(t, l) ==
    /\ pc[t] = "idle"
    /\ IF register_guard
       THEN /\ Len(listeners) < MaxListeners
            /\ listeners' = Append(listeners, l)
            /\ last' = Call("register", "none", TRUE, RetNone)
       ELSE /\ last' = Call("register", "COLLECTION_INIT_ERROR", FALSE, RetNone)
            /\ UNCHANGED listeners
    /\ UNCHANGED <<facadeVars, h_initialized, h_context, cache, callerVars, remote, raised>>
    /\ UNCHANGED <<valid_init, singletonVars, featureVars, apiVars>>

\* The read guard without the test of the context flag.
read_guard_init_only == is_initialized

\* The guard of the four read calls, lines 204, 215, 226 and 240.
read_guard == is_initialized /\ is_initialized_configuration

\* One read call: delegate to the handler, or log and return None.
Read(t, name, handler_result) ==
    /\ pc[t] = "idle"
    /\ last' = IF read_guard
               THEN Call(name, "none", TRUE, handler_result)
               ELSE Call(name, "COLLECTION_INIT_ERROR", FALSE, RetNone)
    /\ UNCHANGED <<facadeVars, handlerVars, callerVars, remote, raised>>
    /\ UNCHANGED <<valid_init, singletonVars, featureVars, apiVars>>

\* AppConfiguration.get_feature, lines 195-207.
get_feature(t, id) == Read(t, "get_feature", handler_get_feature(id))

\* AppConfiguration.get_features, lines 209-218.
get_features(t) == Read(t, "get_features", handler_get_features)

\* AppConfiguration.get_properties, lines 220-229.
get_properties(t) == Read(t, "get_properties", handler_get_properties)

\* AppConfiguration.get_property, lines 231-243.
get_property(t, id) == Read(t, "get_property", handler_get_property(id))

\* ------------------------------------------------------------ environment

\* The configuration held by the service changes.
RemoteChange ==
    /\ remote' \in Payloads \ {remote}
    /\ UNCHANGED <<facadeVars, handlerVars, callerVars, last, raised>>
    /\ UNCHANGED <<valid_init, singletonVars, featureVars, apiVars>>

\* ------------------------------------------------------------------- Next

\* Every operation of the facade, called by one caller.
Next ==
    \/ \E a \in InitArgs : init(MainThread, a[1], a[2], a[3])
    \/ setup_configuration_handler(MainThread)
    \/ get_credentials(MainThread)
    \/ \E c \in CollectionArgs, e \in EnvironmentArgs, f \in FileArgs, live \in BOOLEAN :
          set_context(MainThread, c, e, f, live)
    \/ fetch_configurations(MainThread)
    \/ LdnCheck(MainThread)
    \/ LdnSet(MainThread)
    \/ \E so \in SendOutcomes, payload_ok \in BOOLEAN : LoadData(MainThread, so, payload_ok)
    \/ LdnReset(MainThread)
    \/ \E l \in Callbacks : register_configuration_update_listener(MainThread, l)
    \/ \E id \in FeatureIds : get_feature(MainThread, id)
    \/ get_features(MainThread)
    \/ get_properties(MainThread)
    \/ \E id \in PropertyIds : get_property(MainThread, id)
    \/ RemoteChange


Spec == Init /\ [][Next]_vars

\* The operations that reach __load_data_now, called by two callers.
ThreadsNext ==
    \/ \E t \in Threads, a \in InitArgs : init(t, a[1], a[2], a[3])
    \/ \E t \in Threads : setup_configuration_handler(t)
    \/ \E t \in Threads, c \in CollectionArgs, e \in EnvironmentArgs,
          f \in FileArgs, live \in BOOLEAN : set_context(t, c, e, f, live)
    \/ \E t \in Threads : fetch_configurations(t)
    \/ \E t \in Threads : LdnCheck(t)
    \/ \E t \in Threads : LdnSet(t)
    \/ \E t \in Threads, so \in SendOutcomes, payload_ok \in BOOLEAN :
          LoadData(t, so, payload_ok)
    \/ \E t \in Threads : LdnReset(t)
    \/ RemoteChange

SpecThreads == Init /\ [][ThreadsNext]_vars


\* ------------------------------------------- get_instance and __init__

\* The callers of get_instance() and of the constructor.
Callers == Threads

NoReturn == [kind |-> "none"]
Raised == [kind |-> "raised"]
Object(id) == [kind |-> "object", id |-> id]

\* A caller starts get_instance().
get_instance(t) ==
    /\ ipc[t] = "idle"
    /\ ipc' = [ipc EXCEPT ![t] = "gi_check"]
    /\ via' = [via EXCEPT ![t] = "get_instance"]
    /\ iret' = [iret EXCEPT ![t] = NoReturn]
    /\ UNCHANGED <<instance, objects>>
    /\ UNCHANGED <<facadeVars, handlerVars, callerVars, remote, last, raised, valid_init,
                   featureVars, apiVars>>

\* get_instance, line 45: the test of __instance, and the call of the
\* constructor of line 46.
GiCheck(t) ==
    /\ ipc[t] = "gi_check"
    /\ ipc' = [ipc EXCEPT ![t] = IF instance = 0 THEN "ctor_check" ELSE "gi_return"]
    /\ UNCHANGED <<instance, objects, via, iret>>
    /\ UNCHANGED <<facadeVars, handlerVars, callerVars, remote, last, raised, valid_init,
                   featureVars, apiVars>>

\* get_instance, line 47: return AppConfiguration.__instance.
GiReturn(t) ==
    /\ ipc[t] = "gi_return"
    /\ iret' = [iret EXCEPT ![t] = Object(instance)]
    /\ ipc' = [ipc EXCEPT ![t] = "idle"]
    /\ UNCHANGED <<instance, objects, via>>
    /\ UNCHANGED <<facadeVars, handlerVars, callerVars, remote, last, raised, valid_init,
                   featureVars, apiVars>>

\* A caller calls AppConfiguration() itself.
constructor(t) ==
    /\ ipc[t] = "idle"
    /\ ipc' = [ipc EXCEPT ![t] = "ctor_check"]
    /\ via' = [via EXCEPT ![t] = "constructor"]
    /\ iret' = [iret EXCEPT ![t] = NoReturn]
    /\ UNCHANGED <<instance, objects>>
    /\ UNCHANGED <<facadeVars, handlerVars, callerVars, remote, last, raised, valid_init,
                   featureVars, apiVars>>

\* __init__, lines 61-62.
CtorCheck(t) ==
    /\ ipc[t] = "ctor_check"
    /\ IF instance # 0
       THEN /\ iret' = [iret EXCEPT ![t] = Raised]
            /\ ipc' = [ipc EXCEPT ![t] = "idle"]
       ELSE /\ ipc' = [ipc EXCEPT ![t] = "ctor_body"]
            /\ UNCHANGED iret
    /\ UNCHANGED <<instance, objects, via>>
    /\ UNCHANGED <<facadeVars, handlerVars, callerVars, remote, last, raised, valid_init,
                   featureVars, apiVars>>

\* __init__, lines 64-71: the new object's fields get the values of InitFacade
\* and the object becomes __instance; the constructor call returns it.
CtorBody(t) ==
    /\ ipc[t] = "ctor_body"
    /\ objects' = objects + 1
    /\ instance' = objects + 1
    /\ iret' = [iret EXCEPT ![t] = Object(objects + 1)]
    /\ ipc' = [ipc EXCEPT ![t] = "idle"]
    /\ UNCHANGED via
    /\ UNCHANGED <<facadeVars, handlerVars, callerVars, remote, last, raised, valid_init,
                   featureVars, apiVars>>

\* A process in which nothing has asked for the AppConfiguration yet.
InitInstance ==
    /\ InitFacade
    /\ InitHandler
    /\ InitCallers
    /\ valid_init = <<"", "", "">>
    /\ remote = "p1"
    /\ instance = 0
    /\ objects = 0
    /\ ipc = [t \in Threads |-> "idle"]
    /\ via = [t \in Threads |-> "none"]
    /\ iret = [t \in Threads |-> NoReturn]
    /\ InitNoFeature

InstanceNext ==
    \/ \E t \in Callers : get_instance(t)
    \/ \E t \in Callers : GiCheck(t)
    \/ \E t \in Callers : GiReturn(t)
    \/ \E t \in Callers : constructor(t)
    \/ \E t \in Callers : CtorCheck(t)
    \/ \E t \in Callers : CtorBody(t)

SpecInstance == InitInstance /\ [][InstanceNext]_vars


\* ------------------------------------------------------------- Feature

\* The Feature objects an application can hold: those of every payload.
Features == UNION {PayloadFeatures(p) : p \in Payloads}

\* The entity_id and entity_attributes arguments of get_current_value.
EntityIds == {PyNone, "", "user1", "user2"}
AttributeSets ==
    {{}, {<<"city", "NY">>}, {<<"city", "LA">>}, {<<"city", "NY">>, <<"plan", "paid">>}}

\* The stable bucket in [0, 100) of an entity for a feature (spec.md section
\* 4.2, step 4; the hash itself is left open by the specification).
Bucket(eid, fid) == IF eid = "user1" THEN 10 ELSE 60

\* A segment of the cached snapshot matches when the entity carries the
\* attribute value it asks for (spec.md section 4.2, step 3).
SegmentMatches(sid, attrs) ==
    \E sg \in cache.segments : sg[1] = sid /\ sg[2] \in attrs

\* A targeting rule applies when one of its segments matches and the entity
\* falls inside the rule's rollout (spec.md section 4.2, steps 2 and 4).
RuleApplies(f, rule, eid, attrs) ==
    /\ \E sid \in rule.segments : SegmentMatches(sid, attrs)
    /\ Bucket(eid, get_feature_id(f)) < rule.rollout

RECURSIVE FirstMatch(_, _, _, _)
\* The value of the first rule that applies, in declaration order, or the
\* enabled_value (spec.md section 4.2, steps 4 and 5).
FirstMatch(f, rules, eid, attrs) ==
    IF rules = <<>> THEN get_enabled_value(f)
    ELSE IF RuleApplies(f, Head(rules), eid, attrs) THEN Head(rules).value
    ELSE FirstMatch(f, Tail(rules), eid, attrs)

\* ConfigurationHandler.feature_evaluation (spec.md section 4.2).
feature_evaluation(f, eid, attrs) ==
    IF ~is_enabled(f) THEN RetValue(get_disabled_value(f))
    ELSE RetValue(FirstMatch(f, get_segment_rules(f), eid, attrs))

Pending == [kind |-> "pending"]

\* The entity test that only knows None.
entity_id_missing_none_only(eid) == eid = PyNone

\* get_current_value, line 77: "not entity_id or entity_id == ''".
entity_id_missing(eid) == eid = PyNone \/ eid = ""

\* Feature.get_current_value, lines 77-82.
get_current_value ==
    /\ current_value = Pending
    /\ IF entity_id_missing(entity_id)
       THEN /\ current_value' = RetNone
            /\ UNCHANGED evaluations
       ELSE LET result == feature_evaluation(feature, entity_id, entity_attributes)
            IN /\ evaluations' = Append(evaluations,
                                        [feature |-> feature, entity_id |-> entity_id,
                                         entity_attributes |-> entity_attributes,
                                         segments |-> cache.segments,
                                         result |-> result])
               /\ current_value' = result
    /\ UNCHANGED <<feature, entity_id, entity_attributes, feature_list, built>>
    /\ UNCHANGED <<facadeVars, handlerVars, callerVars, remote, last, raised, valid_init,
                   singletonVars, apiVars>>

\* The background refresh task (spec.md section 5) commits the snapshot of
\* the payload the service holds by now, between the application's
\* get_feature and its call of get_current_value on the object it was handed.
Refresh ==
    /\ current_value = Pending
    /\ \E p \in Payloads \ {remote} :
         /\ remote' = p
         /\ cache' = Parse(p)
    /\ UNCHANGED <<facadeVars, h_initialized, h_context, listeners, callerVars, last,
                   raised, valid_init, singletonVars, featureVars, apiVars>>

\* A session that has loaded a snapshot, and a Feature of it about to be
\* evaluated for a drawn entity.
InitFeature ==
    /\ apikey = "k1"
    /\ region = "r1"
    /\ guid = "g1"
    /\ configuration_handler_instance = "handler"
    /\ is_initialized = TRUE
    /\ is_initialized_configuration = TRUE
    /\ is_loading = FALSE
    /\ h_initialized = TRUE
    /\ h_context = handler_set_context("c1", "e1", PyNone, TRUE)
    /\ remote \in Payloads
    /\ cache = Parse(remote)
    /\ listeners = <<>>
    /\ InitCallers
    /\ valid_init = <<"r1", "g1", "k1">>
    /\ InitSingletonBuilt
    /\ feature \in PayloadFeatures(remote)
    /\ entity_id \in EntityIds
    /\ entity_attributes \in AttributeSets
    /\ current_value = Pending
    /\ evaluations = <<>>
    /\ InitNotBuilt
    /\ InitAPIManager

FeatureNext ==
    \/ Refresh
    \/ get_current_value

SpecFeature == InitFeature /\ [][FeatureNext]_vars


\* --------------------------------------------------- Feature construction

\* The keys Feature.__init__ reads, lines 31-38.
FeatureKeys ==
    {"enabled", "name", "feature_id", "segment_rules", "type", "disabled_value",
     "enabled_value"}

\* The values of 'type' in a payload: the members, JSON null, and a string
\* that is no member.
TypeValues == ConfigurationTypes \cup {PyNone, "COLOR"}

\* A dict limited to some of its keys.
Restrict(d, keys) == [k \in keys |-> d[k]]

\* Arguments of Feature(...): every selection of the keys of a complete
\* entry, with every value of 'type', and values that are not dicts.
FeatureLists ==
    {Dict(Restrict([f2_dict EXCEPT !["type"] = t], keys)) :
        t \in TypeValues, keys \in SUBSET FeatureKeys}
    \cup {NotADict("list"), NotADict("None"), NotADict("str")}

\* One constructor call Feature(feature_list).
new_Feature ==
    /\ built = NotBuilt
    /\ built' = Feature(feature_list)
    /\ UNCHANGED <<feature, entity_id, entity_attributes, current_value, evaluations,
                   feature_list>>
    /\ UNCHANGED <<facadeVars, handlerVars, callerVars, remote, last, raised, valid_init,
                   singletonVars, apiVars>>

\* A payload entry about to be made a Feature object.
InitConstruct ==
    /\ InitFacade
    /\ InitHandler
    /\ InitCallers
    /\ valid_init = <<"", "", "">>
    /\ remote = "p1"
    /\ InitSingletonBuilt
    /\ feature = [feature_id |-> "none"]
    /\ entity_id = PyNone
    /\ entity_attributes = {}
    /\ current_value = RetNone
    /\ evaluations = <<>>
    /\ feature_list \in FeatureLists
    /\ built = NotBuilt
    /\ InitAPIManager

ConstructNext == new_Feature

SpecConstruct == InitConstruct /\ [][ConstructNext]_vars

\* ------------------------------------------------------------ properties

ReadOps == {"get_feature", "get_features", "get_property", "get_properties"}

IsCall(o) == last.kind = "call" /\ last.op = o

IsRead == last.kind = "call" /\ last.op \in ReadOps

\* C1 (SpecThreads): at most one execution of ConfigurationHandler.load_data
\* is in flight at any time, whatever the interleaving of the callers of
\* set_context and fetch_configurations.
C1_AtMostOneLoadInFlight == Cardinality(InFlight) <= 1

\* C2 (Spec): after set_context with valid ids, live updates off and no
\* configuration file (the only way to a set context flag on a handler
\* without context), load_data is never invoked and the lookups by id return
\* None, whatever calls other than a binding set_context follow.
C2_NoLoadAfterMissingFile ==
    (is_initialized_configuration /\ ~h_context.bound) =>
        /\ pc[MainThread] # "load_data"
        /\ (IsCall("get_feature") \/ IsCall("get_property")) => last.ret = RetNone

\* C3 (Spec): a call of fetch_configurations goes on to load_data if and only
\* if init has completed and the context is bound on the handler.
C3_FetchLoadsIffContextBound ==
    [][fetch_configurations(MainThread) =>
         ((pc'[MainThread] = "ldn_check") <=> (is_initialized /\ h_context.bound))]_vars

C5_InvalidInitLeavesUninitialized ==
    (IsCall("init") /\ last.error # "none") =>
        (~is_initialized /\ configuration_handler_instance = "None" /\ ~h_initialized)

\* C5 (Spec), amended: an init call with an invalid argument raises nothing
\* and changes nothing: not the credentials, not the lifecycle flags, not the
\* handler; the session stays as initialized or uninitialized as it was.
C5_InvalidInitChangesNothing ==
    [][\A a \in InitArgs :
         (~AllValid(a[1], a[2], a[3]) /\ init(MainThread, a[1], a[2], a[3]))
             => UNCHANGED <<facadeVars, handlerVars, callerVars, raised>>]_vars

\* C5: an init call with an invalid argument on a session that an earlier
\* init had initialized.
C5_Witness ==
    /\ IsCall("init")
    /\ last.error # "none"
    /\ is_initialized
    /\ configuration_handler_instance = "handler"

\* C6 (Spec): the three getters return the arguments of the most recent init
\* call whose arguments were all valid, or empty strings if there was none,
\* and never None.
C6_CredentialsAllOrNothing ==
    /\ <<get_region, get_guid, get_apikey>> = valid_init
    /\ PyNone \notin {get_region, get_guid, get_apikey}

\* C6: a failed init after a valid one; the credentials of the valid one stay.
C6_Witness ==
    /\ IsCall("init")
    /\ last.error = "GUID_ERROR"
    /\ valid_init = <<"r1", "g1", "k1">>
    /\ get_guid = "g1"

\* C7 (SpecInstance): at most one AppConfiguration object is ever created,
\* get_instance() never raises, and all callers are handed the same object.
C7_Singleton ==
    /\ objects <= 1
    /\ \A t \in Callers : via[t] = "get_instance" => iret[t] # Raised
    /\ \A t, u \in Callers :
         (iret[t].kind = "object" /\ iret[u].kind = "object") => iret[t] = iret[u]

\* C8 (SpecFeature): with an empty or absent entity_id, get_current_value
\* returns None and the evaluator is not called; otherwise the evaluator is
\* called once, with this feature and these arguments, and its result is
\* returned.
C8_GetCurrentValue ==
    current_value # Pending =>
        IF entity_id \in {PyNone, ""}
        THEN current_value = RetNone /\ evaluations = <<>>
        ELSE /\ Len(evaluations) = 1
             /\ evaluations[1].feature = feature
             /\ evaluations[1].entity_id = entity_id
             /\ evaluations[1].entity_attributes = entity_attributes
             /\ current_value = evaluations[1].result

\* C8: an evaluation for a real entity that a targeting rule decided.
C8_Witness ==
    /\ current_value = RetValue("red")
    /\ entity_id = "user1"
    /\ Len(evaluations) = 1

\* C9 (Spec): a load_data cycle that fails (transport error, non-2xx answer,
\* malformed payload) leaves the cached snapshot as it was and calls no
\* listener.
C9_FailedCycleKeepsSnapshot ==
    (last.kind = "cycle" /\ last.input # "ok") =>
        (cache = last.before /\ last.fired = <<>>)

\* C9: a transport error after a successful load, with a listener registered.
C9_Witness ==
    /\ last.kind = "cycle"
    /\ last.input = "transport_error"
    /\ last.before # EmptySnapshot
    /\ last.registered # <<>>

\* C10 (Spec): a successful load_data cycle calls each registered listener
\* once, in registration order, and leaves the parsed payload in the cache,
\* also when the payload is the one the cache already held.
C10_SuccessNotifiesEachOnce ==
    (last.kind = "cycle" /\ last.input = "ok" /\ last.bound) =>
        (last.fired = last.registered /\ cache = Parse(last.payload))

\* C10: a successful cycle whose payload equals the snapshot of the cycle
\* before it, with two listeners registered.
C10_Witness ==
    /\ last.kind = "cycle"
    /\ last.input = "ok"
    /\ last.bound
    /\ Parse(last.payload) = last.before
    /\ cache = last.before
    /\ Len(last.registered) = 2
    /\ last.fired = last.registered

\* C11 (SpecFeature): every evaluation call observes a feature and segments
\* that belong to one snapshot: some payload's snapshot holds both the
\* Feature evaluated and the segments its rules were resolved against.
C11_OneSnapshotPerCall ==
    \A i \in 1..Len(evaluations) :
        \E p \in Payloads :
            /\ evaluations[i].feature \in PayloadFeatures(p)
            /\ evaluations[i].segments = Parse(p).segments

\* The rule at position i of the feature of an evaluation applied to its
\* entity.
Applied(ev, i) ==
    RuleApplies(ev.feature, ev.feature.segment_rules[i], ev.entity_id, ev.entity_attributes)

\* C12 (SpecFeature): the evaluation of an enabled feature returns the value
\* of the earliest declared rule that matches the entity and is not excluded
\* by rollout, whatever rules follow it in the list.
C12_FirstMatchWins ==
    \A n \in 1..Len(evaluations) :
        LET ev == evaluations[n]
        IN ev.feature.enabled =>
             \A i \in 1..Len(ev.feature.segment_rules) :
                 (Applied(ev, i) /\ \A j \in 1..(i - 1) : ~Applied(ev, j))
                     => ev.result = RetValue(ev.feature.segment_rules[i].value)

\* C12: an evaluation in which two rules of the feature apply and the value
\* of the one declared first came back.
C12_Witness ==
    /\ Len(evaluations) = 1
    /\ evaluations[1].feature.feature_id = "f4"
    /\ Applied(evaluations[1], 1)
    /\ Applied(evaluations[1], 2)
    /\ evaluations[1].result = RetValue("red")

\* C13 (SpecFeature): when no targeting rule of the feature applies to the
\* entity, the evaluation returns the enabled_value of an enabled feature and
\* the disabled_value of a disabled one, however many rules the feature has.
C13_DefaultWithoutApplicableRule ==
    \A n \in 1..Len(evaluations) :
        LET ev == evaluations[n]
        IN (\A i \in 1..Len(ev.feature.segment_rules) : ~Applied(ev, i)) =>
             ev.result = RetValue(IF ev.feature.enabled
                                  THEN ev.feature.enabled_value
                                  ELSE ev.feature.disabled_value)

\* C13: an evaluation of the disabled feature, which has a rule that does not
\* apply to the entity.
C13_Witness ==
    /\ Len(evaluations) = 1
    /\ evaluations[1].feature.feature_id = "f3"
    /\ ~evaluations[1].feature.enabled
    /\ ~Applied(evaluations[1], 1)
    /\ evaluations[1].result = RetValue("grey")

\* C14 (Spec): a call of register_configuration_update_listener appends the
\* callback at the end of the handler's registry when init has completed and
\* set_context has bound the context, and leaves the registry as it was
\* otherwise.
C14_RegisterAppendsIffContextSet ==
    [][\A l \in Callbacks :
         register_configuration_update_listener(MainThread, l) =>
             listeners' = IF is_initialized /\ h_context.bound
                          THEN Append(listeners, l)
                          ELSE listeners]_vars

\* C15 (SpecAPI): no call of prepare_api_request lets an exception out;
\* each returns a DetailedResponse whose status code is the code of the
\* ApiException when the send failed with one, and 400 when anything else
\* failed while the request was prepared or sent.
C15_NeverPropagates ==
    \A i \in 1..Len(requests) :
        LET rq == requests[i]
        IN /\ ~rq.response.raised
           /\ rq.send.kind = "api_exception" => rq.response.status_code = rq.send.status
           /\ rq.send.kind = "exception" => rq.response.status_code = 400

\* The dict a constructor call was given.
Given == feature_list.d

\* C16 (SpecConstruct): a Feature built from a dict has enabled false when
\* 'enabled' is absent, type NUMERIC when 'type' is absent or null, and no
\* segment rules when 'segment_rules' is absent; every field that is present
\* comes back from its accessor as the payload had it.
C16_DefaultsAndAccessors ==
    built.kind = "Feature" =>
        /\ is_enabled(built) =
              (IF "enabled" \in DOMAIN Given THEN Given["enabled"] ELSE FALSE)
        /\ get_feature_data_type(built) =
              (IF "type" \in DOMAIN Given /\ Given["type"] # PyNone
               THEN Given["type"] ELSE "NUMERIC")
        /\ get_segment_rules(built) =
              (IF "segment_rules" \in DOMAIN Given THEN Given["segment_rules"] ELSE <<>>)
        /\ "name" \in DOMAIN Given => get_feature_name(built) = Given["name"]
        /\ "feature_id" \in DOMAIN Given => get_feature_id(built) = Given["feature_id"]
        /\ "enabled_value" \in DOMAIN Given =>
              get_enabled_value(built) = Given["enabled_value"]
        /\ "disabled_value" \in DOMAIN Given =>
              get_disabled_value(built) = Given["disabled_value"]

\* C16: a Feature built from an entry that has its identity and its values but
\* neither 'enabled' nor 'type' nor 'segment_rules'.
C16_Witness ==
    /\ built.kind = "Feature"
    /\ DOMAIN Given = {"feature_id", "name", "enabled_value", "disabled_value"}
    /\ ~is_enabled(built)
    /\ get_feature_data_type(built) = "NUMERIC"
    /\ get_segment_rules(built) = <<>>
    /\ get_enabled_value(built) = "blue"

\* C17 (SpecConstruct): a constructor call whose argument lacks 'feature_id',
\* or is not a dict, fails with MalformedConfigError.
C17_MissingIdentityFails ==
    (built # NotBuilt /\ (feature_list.shape # "dict" \/ "feature_id" \notin DOMAIN Given))
        => built = Raises("MalformedConfigError")

\* C18 (Spec): a set_context call made while init has not succeeded, or with
\* a collection_id or environment_id that is None or empty, changes nothing:
\* not the context flag or any other field of the facade, not the handler
\* (its set_context is not invoked), not the caller's position (no load is
\* started), and nothing is raised.
C18_InvalidSetContextChangesNothing ==
    [][\A c \in CollectionArgs, e \in EnvironmentArgs, f \in FileArgs, live \in BOOLEAN :
         (/\ set_context(MainThread, c, e, f, live)
          /\ (~is_initialized \/ c \in {PyNone, ""} \/ e \in {PyNone, ""}))
             => UNCHANGED <<facadeVars, handlerVars, callerVars, raised>>]_vars

\* C18: a set_context call rejected for its environment_id on a session whose
\* context an earlier call had set.
C18_Witness ==
    /\ IsCall("set_context")
    /\ last.error = "ENVIRONMENT_ID_VALUE_ERROR"
    /\ is_initialized_configuration
    /\ h_context.bound
    /\ pc[MainThread] = "idle"

\* C19 (SpecThreads): the context flag implies the init flag; the init flag
\* implies a handler that has been obtained and init-ed, once the init call
\* that set it has returned; and no call of the facade lets an exception out.
C19_LifecycleFlags ==
    /\ is_initialized_configuration => is_initialized
    /\ (is_initialized /\ \A t \in Threads : pc[t] # "init_setup")
          => (configuration_handler_instance # "None" /\ h_initialized)
    /\ ~raised

\* C20 (SpecThreads): while no caller is between lines 180 and 182 of
\* __load_data_now (inside load_data, or back from it and about to reset the
\* flag), the loading flag is false.
C20_FlagReleasedAfterLoad ==
    (\A t \in Threads : pc[t] \notin {"load_data", "ldn_reset"}) => ~is_loading

\* C21 (SpecThreads): a set_context call that has bound its context on the
\* handler goes on to load_data before it returns: at the test of line 178 it
\* never takes the early return of line 179.
C21_SetContextLoads ==
    [][\A t \in Threads :
         (LdnCheck(t) /\ op[t] = "set_context") => pc'[t] = "ldn_set"]_vars

\* C22 (SpecAPI): APIManager is a singleton: every get_instance() call
\* returns the same object and at most one APIManager object exists.
C22_OneAPIManager ==
    /\ \A i, j \in 1..Len(api_returned) : api_returned[i] = api_returned[j]
    /\ Cardinality(api_objects) <= 1

====
